---- MODULE Spec2Model ----
(***************************************************************************)
(* Model of the DB2 -> PostgreSQL replication run of                       *)
(* thomasreinecke/db2-postgres-replicate: replicateAll (src/replicate.js)  *)
(* with the source accessor (src/db2.js) and the destination accessor      *)
(* (src/postgres.js) it drives.  One action per awaited call of the run.   *)
(* A database call that can fail does so nondeterministically.             *)
(*                                                                         *)
(* Source rows of a table holding N rows are the ids 1..N, in primary-key  *)
(* order; a row already present in the destination before the run is the   *)
(* id 0.  The source does not change during a run.                         *)
(***************************************************************************)
EXTENDS Integers, Sequences, FiniteSets, TLC

VARIABLES
    cfg,            \* config.replication: reset, tables, views, chunkSize
    srcRows,        \* DB2: number of rows of each source table
    dstSchemas,     \* PostgreSQL: the schemas that exist
    dstTables,      \* PostgreSQL: the tables that exist
    dstRows,        \* PostgreSQL: the rows of each table
    dstViews,       \* PostgreSQL: the views that exist
    pc,             \* the await the run is suspended at
    si,             \* index into uniqueSchemas (drop loop, ensure loop)
    ti,             \* index into config.replication.tables
    vi,             \* index into config.replication.views
    columns,        \* replicateTable: columns (number of them)
    db2Count,       \* replicateTable: db2Count
    postgresCount,  \* replicateTable: postgresCount
    offset,         \* replicateTable: offset
    totalFetched,   \* replicateTable: totalFetched
    chunk,          \* replicateTable: chunk
    viewDefinition, \* replicateView: viewDefinition
    inserted,       \* sum of the insertedCount values of this table's loop
    calls,          \* calls issued for the current table, by operation
    tableResult,    \* how the current table's processing ended
    reports,        \* spinner reports of the current table: fail, succeed
    errs,           \* failures seen while processing the current table
    startRows,      \* destination rows of the table when its processing began
    dropped,        \* schemas dropped so far, in order
    ensured,        \* schemas ensured so far, in order
    tLog,           \* tables whose processing has begun, in order
    vLog,           \* views whose processing has begun, in order
    thrown,         \* the operation whose exception escaped replicateAll
    closed,         \* db2.close() has been called
    fn,             \* a call of one of the pure functions: its arguments, its result
    run             \* which run this is, and whether an operation of it has failed

vars == <<cfg, srcRows, dstSchemas, dstTables, dstRows, dstViews, pc, si, ti, vi,
          columns, db2Count, postgresCount, offset, totalFetched, chunk,
          viewDefinition, inserted, calls, tableResult, reports, errs,
          startRows, dropped, ensured, tLog, vLog, thrown, closed, fn, run>>

(***************************************************************************)
(* Bounds of the model.                                                    *)
(***************************************************************************)
MaxRows == 3
MaxChunk == 2

\* insertIntoPostgres: const batchSize = 1000
batchSize == 1000

Target(s, n) == [schema |-> s, table |-> n]
TableA == Target("s1", "a")
TableB == Target("s2", "b")
ViewV == Target("s1", "v")
ViewW == Target("s2", "w")
TableTargets == {TableA, TableB}
ViewTargets == {ViewV, ViewW}
\* REPLICATED_TABLES and REPLICATED_VIEWS as parsed: ordered lists in which
\* an entry may occur twice.
TableLists == {<<>>, <<TableA>>, <<TableA, TableB>>, <<TableB, TableA>>, <<TableA, TableA>>}
ViewLists == {<<>>, <<ViewV>>, <<ViewW, ViewV>>}
\* a catalog lookup gives no columns or some columns
ColumnCounts == {0, 2}
\* a view text after the AS keyword: nothing, or a SELECT statement
ViewTexts == {"", "SELECT"}

Range(s) == {s[i] : i \in DOMAIN s}
Min(a, b) == IF a < b THEN a ELSE b
Max(a, b) == IF a > b THEN a ELSE b
CeilDiv(a, b) == (a + b - 1) \div b
IsPrefix(s, t) == Len(s) <= Len(t) /\ s = SubSeq(t, 1, Len(s))
StaleRows(k) == [i \in 1..k |-> 0]

(***************************************************************************)
(* Pure parts of the code.                                                 *)
(***************************************************************************)
SchemasOf(entries) == [i \in 1..Len(entries) |-> entries[i].schema]

RECURSIVE Uniq(_, _)
Uniq(s, acc) ==
    IF s = <<>> THEN acc
    ELSE Uniq(Tail(s), IF Head(s) \in Range(acc) THEN acc ELSE Append(acc, Head(s)))

\* the schema list without the Set: a schema named twice is listed twice
uniqueSchemasNoSet == SchemasOf(cfg.tables \o cfg.views)

\* replicate.js:38 and :46  [...new Set([...tables, ...views].map(e => e.schema))]
uniqueSchemas == Uniq(SchemasOf(cfg.tables \o cfg.views), <<>>)

\* the no-columns test left out
NoColumnsNever(cols) == FALSE

\* replicate.js:86  if (!columns.length)
NoColumns(cols) == cols = 0

\* the comparison written as 'more rows than the source'
CountsMatchGreater(pgCount, srcCount) == pgCount > srcCount

\* replicate.js:102  postgresCount === db2Count
CountsMatch(pgCount, srcCount) == pgCount = srcCount

\* the row counts compared whether or not RESET is set
ReconcileAlways == TRUE

\* replicate.js:100  if (!config.replication.reset)
Reconcile == ~cfg.reset

\* replicate.js:121  if (!chunk.length)
ChunkIsEmpty(c) == Len(c) = 0

\* the offset is not advanced
NextOffsetStays(off, size) == off

\* the offset advanced past one row too many
NextOffsetSkipsRow(off, size) == off + size + 1

\* the offset advanced by one row instead of one chunk
NextOffsetByOne(off, size) == off + 1

\* replicate.js:130  offset += chunkSize
NextOffset(off, size) == off + size

\* db2.js:99  OFFSET off ROWS FETCH FIRST size ROWS ONLY, on a table of n rows:
\* rows off+1 .. off+size of the n, fewer at the end, none past it (a table
\* without a primary key is paged without ORDER BY; its pages have the same
\* sizes and are modelled in the same order)
Page(n, size, off) == [i \in 1..Max(0, Min(size, n - off)) |-> off + i]

\* the table the run is processing, the view it is processing
cur == cfg.tables[ti]
curView == cfg.views[vi]

\* where the run goes after each phase (replicate.js:37, :47, :52, :63)
AfterTables == IF Len(cfg.views) = 0 THEN "finish" ELSE "getViewDefinition"
\* the views taken before the tables
AfterEnsureViewsFirst == IF Len(cfg.views) = 0 THEN "finish" ELSE "getViewDefinition"
AfterEnsure == IF Len(cfg.tables) = 0 THEN AfterTables ELSE "getColumns"
AfterDrop == IF Len(uniqueSchemas) = 0 THEN AfterEnsure ELSE "ensureSchema"
AfterConnect == IF cfg.reset /\ Len(uniqueSchemas) > 0 THEN "dropSchema" ELSE AfterDrop

\* no pure function is being called
NoCall == [op |-> "none", args |-> <<>>, done |-> FALSE, result |-> <<>>]

\* the first run, nothing failed yet; before: the destination rows a second
\* run started from
FirstRun == [n |-> 1, clean |-> TRUE, before |-> <<>>]

NoCalls == [create |-> 0, db2Count |-> 0, pgCount |-> 0, truncate |-> 0,
            fetch |-> 0, insert |-> 0]
NoReports == [fail |-> FALSE, succeed |-> FALSE]

\* the locals of replicateTable before its first statement
FreshTable ==
    /\ columns' = 0
    /\ db2Count' = 0
    /\ postgresCount' = 0
    /\ offset' = 0
    /\ totalFetched' = 0
    /\ chunk' = <<>>
    /\ inserted' = 0
    /\ calls' = NoCalls
    /\ tableResult' = "none"
    /\ reports' = NoReports
    /\ errs' = {}
    /\ startRows' = <<>>

tableLocals == <<columns, db2Count, postgresCount, offset, totalFetched, chunk,
                 inserted, calls, tableResult, reports, errs, startRows>>
destination == <<dstSchemas, dstTables, dstRows, dstViews>>
runLog == <<dropped, ensured, tLog, vLog, closed>>

(***************************************************************************)
(* Initial states: a configuration, a source and a destination.            *)
(***************************************************************************)
Init ==
    /\ cfg \in [reset : BOOLEAN, tables : TableLists, views : ViewLists,
                chunkSize : 1..MaxChunk]
    /\ srcRows \in [TableTargets -> 0..MaxRows]
    /\ \A t \in TableTargets \ Range(cfg.tables) : srcRows[t] = 0
    /\ dstTables \in SUBSET Range(cfg.tables)
    /\ \E k \in [TableTargets -> 0..MaxRows] :
          /\ \A t \in TableTargets \ dstTables : k[t] = 0
          /\ dstRows = [t \in TableTargets |-> StaleRows(k[t])]
    /\ dstSchemas = {t.schema : t \in dstTables}
    /\ dstViews = {}
    /\ pc = "connect"
    /\ si = 1 /\ ti = 1 /\ vi = 1
    /\ columns = 0 /\ db2Count = 0 /\ postgresCount = 0 /\ offset = 0
    /\ totalFetched = 0 /\ chunk = <<>> /\ viewDefinition = ""
    /\ inserted = 0 /\ calls = NoCalls /\ tableResult = "none"
    /\ reports = NoReports /\ errs = {} /\ startRows = <<>>
    /\ dropped = <<>> /\ ensured = <<>> /\ tLog = <<>> /\ vLog = <<>>
    /\ thrown = "" /\ closed = FALSE
    /\ fn = NoCall
    /\ run = FirstRun

\* an exception escapes replicateAll: nothing after it runs
Abort(op) ==
    /\ pc' = "aborted"
    /\ thrown' = op

(***************************************************************************)
(* replicateAll, before the tables.                                        *)
(***************************************************************************)
\* replicate.js:34  const db2 = await connectDB2()
ConnectDB2 ==
    /\ pc = "connect"
    /\ \/ pc' = AfterConnect /\ UNCHANGED thrown
       \/ Abort("connectDB2")
    /\ UNCHANGED <<cfg, fn, run, srcRows, destination, si, ti, vi, tableLocals,
                   viewDefinition, runLog>>

\* replicate.js:39-42 with postgres.js:23-31
DropSchema ==
    /\ pc = "dropSchema"
    /\ LET schema == uniqueSchemas[si] IN
       \/ /\ dstSchemas' = dstSchemas \ {schema}
          /\ dstTables' = {t \in dstTables : t.schema # schema}
          /\ dstRows' = [t \in TableTargets |->
                            IF t.schema = schema THEN <<>> ELSE dstRows[t]]
          /\ dstViews' = {v \in dstViews : v.schema # schema}
          /\ dropped' = Append(dropped, schema)
          /\ IF si < Len(uniqueSchemas)
                THEN si' = si + 1 /\ pc' = "dropSchema"
                ELSE si' = 1 /\ pc' = AfterDrop
          /\ UNCHANGED thrown
       \/ /\ Abort("dropSchema")
          /\ UNCHANGED <<destination, dropped, si>>
    /\ UNCHANGED <<cfg, fn, run, srcRows, ti, vi, tableLocals, viewDefinition,
                   ensured, tLog, vLog, closed>>

\* replicate.js:47-49 with postgres.js:36-44
EnsureSchemaExists ==
    /\ pc = "ensureSchema"
    /\ LET schema == uniqueSchemas[si] IN
       \/ /\ dstSchemas' = dstSchemas \cup {schema}
          /\ ensured' = Append(ensured, schema)
          /\ IF si < Len(uniqueSchemas)
                THEN si' = si + 1 /\ pc' = "ensureSchema"
                ELSE si' = 1 /\ pc' = AfterEnsure
          /\ UNCHANGED thrown
       \/ /\ Abort("ensureSchemaExists")
          /\ UNCHANGED <<dstSchemas, ensured, si>>
    /\ UNCHANGED <<cfg, fn, run, srcRows, dstTables, dstRows, dstViews, ti, vi,
                   tableLocals, viewDefinition, dropped, tLog, vLog, closed>>

(***************************************************************************)
(* replicateTable.                                                         *)
(***************************************************************************)
\* replicate.js:57-58 and :78-89: the table's processing begins with the
\* catalog lookups of db2.js:43-61 (no columns when the table is absent or
\* the query fails) and db2.js:66-83
GetColumnMetadata ==
    /\ pc = "getColumns"
    /\ tLog' = Append(tLog, cur)
    /\ startRows' = dstRows[cur]
    /\ \E cols \in ColumnCounts :
          /\ columns' = cols
          /\ IF NoColumns(cols)
                THEN pc' = "tableEnd" /\ tableResult' = "noColumns"
                ELSE pc' = "ensureTable" /\ tableResult' = "none"
    /\ UNCHANGED <<cfg, fn, run, srcRows, destination, si, ti, vi, db2Count,
                   postgresCount, offset, totalFetched, chunk, viewDefinition,
                   inserted, calls, reports, errs, dropped, ensured, vLog,
                   thrown, closed>>

\* replicate.js:91 with postgres.js:49-58: CREATE TABLE IF NOT EXISTS
EnsureTableExists ==
    /\ pc = "ensureTable"
    /\ calls' = [calls EXCEPT !.create = @ + 1]
    /\ \/ /\ cur.schema \in dstSchemas
          /\ dstTables' = dstTables \cup {cur}
          /\ pc' = "getDb2RowCount"
          /\ UNCHANGED thrown
       \/ /\ Abort("ensureTableExists")
          /\ UNCHANGED dstTables
    /\ UNCHANGED <<cfg, fn, run, srcRows, dstSchemas, dstRows, dstViews, si, ti, vi,
                   columns, db2Count, postgresCount, offset, totalFetched,
                   chunk, viewDefinition, inserted, tableResult, reports,
                   errs, startRows, runLog>>

\* replicate.js:93-100 with db2.js:122-138: the count, or 0 when the query fails
GetDb2RowCount ==
    /\ pc = "getDb2RowCount"
    /\ calls' = [calls EXCEPT !.db2Count = @ + 1]
    /\ db2Count' \in {srcRows[cur], 0}
    /\ pc' = IF Reconcile THEN "getPostgresRowCount" ELSE "fetchChunk"
    /\ UNCHANGED <<cfg, fn, run, srcRows, destination, si, ti, vi, columns,
                   postgresCount, offset, totalFetched, chunk, viewDefinition,
                   inserted, tableResult, reports, errs, startRows, runLog,
                   thrown>>

\* the failed count reported as 0 instead of -1
PostgresRowCountsZero(rows) == {Len(rows), 0}

\* postgres.js:152-160: what getPostgresRowCount may return for a table
\* holding rows: the count, or the sentinel -1 when the query fails
PostgresRowCounts(rows) == {Len(rows), -1}

\* replicate.js:101-106 with postgres.js:152-160: the count, or -1 when the
\* query fails
GetPostgresRowCount ==
    /\ pc = "getPostgresRowCount"
    /\ calls' = [calls EXCEPT !.pgCount = @ + 1]
    /\ postgresCount' \in PostgresRowCounts(dstRows[cur])
    /\ IF CountsMatch(postgresCount', db2Count)
          THEN pc' = "tableEnd" /\ tableResult' = "inSync"
          ELSE pc' = "truncateTable" /\ UNCHANGED tableResult
    /\ UNCHANGED <<cfg, fn, run, srcRows, destination, si, ti, vi, columns, db2Count,
                   offset, totalFetched, chunk, viewDefinition, inserted,
                   reports, errs, startRows, runLog, thrown>>

\* replicate.js:107 with postgres.js:165-173
TruncateTable ==
    /\ pc = "truncateTable"
    /\ calls' = [calls EXCEPT !.truncate = @ + 1]
    /\ \/ /\ dstRows' = [dstRows EXCEPT ![cur] = <<>>]
          /\ pc' = "fetchChunk"
          /\ UNCHANGED thrown
       \/ /\ Abort("truncateTable")
          /\ UNCHANGED dstRows
    /\ UNCHANGED <<cfg, fn, run, srcRows, dstSchemas, dstTables, dstViews, si, ti, vi,
                   columns, db2Count, postgresCount, offset, totalFetched,
                   chunk, viewDefinition, inserted, tableResult, reports,
                   errs, startRows, runLog>>

\* fetchChunk without its try/catch: a failed page query is thrown into the
\* loop's catch, which reports the table as failed
FetchChunkThrows ==
    /\ pc = "fetchChunk"
    /\ calls' = [calls EXCEPT !.fetch = @ + 1]
    /\ \/ /\ chunk' = Page(srcRows[cur], cfg.chunkSize, offset)
          /\ UNCHANGED errs
          /\ IF ChunkIsEmpty(chunk')
                THEN /\ pc' = "tableEnd"
                     /\ tableResult' = "finished"
                     /\ reports' = [reports EXCEPT !.succeed = TRUE]
                     /\ UNCHANGED totalFetched
                ELSE /\ pc' = "insertIntoPostgres"
                     /\ totalFetched' = totalFetched + Len(chunk')
                     /\ UNCHANGED <<tableResult, reports>>
       \/ /\ errs' = errs \cup {"fetch"}
          /\ reports' = [fail |-> TRUE, succeed |-> TRUE]
          /\ tableResult' = "finished"
          /\ pc' = "tableEnd"
          /\ UNCHANGED <<chunk, totalFetched>>
    /\ UNCHANGED <<cfg, fn, run, srcRows, destination, si, ti, vi, columns, db2Count,
                   postgresCount, offset, viewDefinition, inserted, startRows,
                   runLog, thrown>>

\* replicate.js:119-126 and :145 with db2.js:88-117: one page, or the empty
\* chunk when the query fails; the empty chunk ends the loop
FetchChunk ==
    /\ pc = "fetchChunk"
    /\ calls' = [calls EXCEPT !.fetch = @ + 1]
    /\ \/ chunk' = Page(srcRows[cur], cfg.chunkSize, offset) /\ UNCHANGED errs
       \/ chunk' = <<>> /\ errs' = errs \cup {"fetch"}
    /\ IF ChunkIsEmpty(chunk')
          THEN /\ pc' = "tableEnd"
               /\ tableResult' = "finished"
               /\ reports' = [reports EXCEPT !.succeed = TRUE]
               /\ UNCHANGED totalFetched
          ELSE /\ pc' = "insertIntoPostgres"
               /\ totalFetched' = totalFetched + Len(chunk')
               /\ UNCHANGED <<tableResult, reports>>
    /\ UNCHANGED <<cfg, fn, run, srcRows, destination, si, ti, vi, columns, db2Count,
                   postgresCount, offset, viewDefinition, inserted, startRows,
                   runLog, thrown>>

\* replicate.js:128-145 with postgres.js:84-127: one INSERT per sub-batch of
\* batchSize rows; the first failing INSERT is re-raised, caught by the
\* loop's catch, which reports the failure and leaves the loop
InsertIntoPostgres ==
    /\ pc = "insertIntoPostgres"
    /\ calls' = [calls EXCEPT !.insert = @ + 1]
    /\ LET nb == CeilDiv(Len(chunk), batchSize) IN
       \E ok \in 0..nb :
          LET done == SubSeq(chunk, 1, Min(ok * batchSize, Len(chunk))) IN
          /\ dstRows' = [dstRows EXCEPT ![cur] = @ \o done]
          /\ IF ok = nb
                THEN /\ inserted' = inserted + Len(done)
                     /\ offset' = NextOffset(offset, cfg.chunkSize)
                     /\ pc' = "fetchChunk"
                     /\ UNCHANGED <<tableResult, reports, errs>>
                ELSE /\ errs' = errs \cup {"insert"}
                     /\ reports' = [fail |-> TRUE, succeed |-> TRUE]
                     /\ tableResult' = "finished"
                     /\ pc' = "tableEnd"
                     /\ UNCHANGED <<inserted, offset>>
    /\ UNCHANGED <<cfg, fn, run, srcRows, dstSchemas, dstTables, dstViews, si, ti, vi,
                   columns, db2Count, postgresCount, totalFetched, chunk,
                   viewDefinition, startRows, runLog, thrown>>

\* an operation of the current table has failed: an error caught in the
\* transfer loop, a count that could not be read, or no column metadata
TableFailed ==
    \/ errs # {}
    \/ tableResult = "noColumns"
    \/ calls.db2Count > 0 /\ db2Count # srcRows[cur]
    \/ calls.pgCount > 0 /\ postgresCount = -1

\* replicate.js:56-60: replicateTable has returned; the next table, or on to
\* the views
NextTable ==
    /\ pc = "tableEnd"
    /\ ti' = ti + 1
    /\ pc' = IF ti < Len(cfg.tables) THEN "getColumns" ELSE AfterTables
    /\ FreshTable
    /\ run' = [run EXCEPT !.clean = @ /\ ~TableFailed]
    /\ UNCHANGED <<cfg, fn, srcRows, destination, si, vi, viewDefinition, runLog,
                   thrown>>

(***************************************************************************)
(* replicateView and the end of replicateAll.                              *)
(***************************************************************************)
\* replicate.js:68-69 and :154 with db2.js:144-172: the text after AS, or
\* the empty string (no row, no AS, or a failed query)
GetViewDefinition ==
    /\ pc = "getViewDefinition"
    /\ vLog' = Append(vLog, curView)
    /\ viewDefinition' \in ViewTexts
    /\ pc' = "createView"
    /\ UNCHANGED <<cfg, fn, run, srcRows, destination, si, ti, vi, tableLocals,
                   dropped, ensured, tLog, thrown, closed>>

\* replicateView without its try/catch: a failed CREATE VIEW escapes
CreateViewNoCatch ==
    /\ pc = "createView"
    /\ \/ /\ viewDefinition # ""
          /\ curView.schema \in dstSchemas
          /\ dstViews' = dstViews \cup {curView}
          /\ vi' = vi + 1
          /\ pc' = IF vi < Len(cfg.views) THEN "getViewDefinition" ELSE "finish"
          /\ UNCHANGED thrown
       \/ /\ Abort("createView")
          /\ UNCHANGED <<dstViews, vi>>
    /\ run' = [run EXCEPT !.clean = @ /\ curView \in dstViews']
    /\ UNCHANGED <<cfg, fn, srcRows, dstSchemas, dstTables, dstRows, si, ti,
                   tableLocals, viewDefinition, runLog>>

\* replicate.js:155-159 with postgres.js:132-147: CREATE OR REPLACE VIEW;
\* an exception of createView is caught by replicateView
CreateView ==
    /\ pc = "createView"
    /\ \/ /\ viewDefinition # ""
          /\ curView.schema \in dstSchemas
          /\ dstViews' = dstViews \cup {curView}
       \/ UNCHANGED dstViews
    /\ vi' = vi + 1
    /\ pc' = IF vi < Len(cfg.views) THEN "getViewDefinition" ELSE "finish"
    /\ run' = [run EXCEPT !.clean = @ /\ curView \in dstViews']
    /\ UNCHANGED <<cfg, fn, srcRows, dstSchemas, dstTables, dstRows, si, ti,
                   tableLocals, viewDefinition, runLog, thrown>>

\* replicate.js:73-74: db2.close()
Finish ==
    /\ pc = "finish"
    /\ closed' = TRUE
    /\ pc' = "done"
    /\ UNCHANGED <<cfg, fn, run, srcRows, destination, si, ti, vi, tableLocals,
                   viewDefinition, dropped, ensured, tLog, vLog, thrown>>

\* index.js:5-9 started once more with RESET not set to true: the same
\* targets and source, the destination as the first run left it
Rerun ==
    /\ pc = "done" /\ run.n = 1 /\ run.clean
    /\ run' = [n |-> 2, clean |-> TRUE, before |-> dstRows]
    /\ cfg' = [cfg EXCEPT !.reset = FALSE]
    /\ pc' = "connect"
    /\ si' = 1 /\ ti' = 1 /\ vi' = 1
    /\ FreshTable
    /\ viewDefinition' = ""
    /\ dropped' = <<>> /\ ensured' = <<>> /\ tLog' = <<>> /\ vLog' = <<>>
    /\ closed' = FALSE
    /\ UNCHANGED <<fn, srcRows, destination, thrown>>

Next ==
    \/ ConnectDB2
    \/ DropSchema
    \/ EnsureSchemaExists
    \/ GetColumnMetadata
    \/ EnsureTableExists
    \/ GetDb2RowCount
    \/ GetPostgresRowCount
    \/ TruncateTable
    \/ FetchChunk
    \/ InsertIntoPostgres
    \/ NextTable
    \/ GetViewDefinition
    \/ CreateView
    \/ Finish

Spec == Init /\ [][Next]_vars

(***************************************************************************)
(* Properties.                                                             *)
(***************************************************************************)
TablePcs == {"ensureTable", "getDb2RowCount", "getPostgresRowCount",
             "truncateTable", "fetchChunk", "insertIntoPostgres", "tableEnd"}
ViewPcs == {"getViewDefinition", "createView"}
ReferencedSchemas == {e.schema : e \in Range(cfg.tables) \cup Range(cfg.views)}
\* replicateTable is at or past its first statement for table number ti
InTable == Len(tLog) = ti /\ ti <= Len(cfg.tables)
\* the transfer loop of the current table has ended
LoopEnded == InTable /\ pc = "tableEnd" /\ tableResult = "finished"

\* C1 as claimed: once the transfer loop has ended without an insert error,
\* the cumulative inserted count equals the N rows of the source table.
C1_InsertedEqualsN_Original ==
    (LoopEnded /\ "insert" \notin errs) => inserted = srcRows[cur]

\* C1 as amended: once the transfer loop has ended with neither an insert
\* error nor a failed fetchChunk query, the cumulative inserted count (and the
\* fetched count) equals the N rows of the source table.
C1_InsertedEqualsN ==
    (LoopEnded /\ "insert" \notin errs /\ "fetch" \notin errs)
        => (inserted = srcRows[cur] /\ totalFetched = srcRows[cur])

\* C1 witness: a loop over several chunks, the last one short, ended with all
\* N rows inserted.
C1_Witness ==
    /\ LoopEnded /\ errs = {}
    /\ srcRows[cur] > cfg.chunkSize
    /\ srcRows[cur] % cfg.chunkSize # 0
    /\ inserted = srcRows[cur]

\* C2 as claimed: the transfer loop issues exactly ceil(N/C) fetchChunk calls
\* (stated for the runs in which no fetch and no insert fails).
C2_FetchCalls_Original ==
    (LoopEnded /\ errs = {})
        => calls.fetch = CeilDiv(srcRows[cur], cfg.chunkSize)

\* C2 as amended: when no fetch and no insert fails the transfer loop issues
\* exactly ceil(N/C) + 1 fetchChunk calls: ceil(N/C) non-empty chunks, each
\* inserted by one insert call, then one empty chunk, which ends the loop.
C2_FetchCalls ==
    (LoopEnded /\ errs = {})
        => /\ calls.fetch = CeilDiv(srcRows[cur], cfg.chunkSize) + 1
           /\ calls.insert = CeilDiv(srcRows[cur], cfg.chunkSize)
           /\ chunk = <<>>

\* C2 witness: N = 3 rows in chunks of C = 2: three fetches, two inserts.
C2_Witness ==
    /\ LoopEnded /\ errs = {}
    /\ srcRows[cur] = 3 /\ cfg.chunkSize = 2
    /\ calls.fetch = 3 /\ calls.insert = 2

\* C3: with reset disabled, once the destination count has been compared and
\* equals the source count, replicateTable has ended for that table with no
\* truncate, no fetchChunk and no insert call, and the destination table
\* holds the rows it held when the table's processing began.
C3_InSyncSkips ==
    (~cfg.reset /\ InTable /\ calls.pgCount > 0 /\ postgresCount = db2Count)
        => /\ pc = "tableEnd"
           /\ calls.truncate = 0 /\ calls.fetch = 0 /\ calls.insert = 0
           /\ dstRows[cur] = startRows

\* C3 witness: a table with equal, non-zero counts was skipped.
C3_Witness ==
    /\ ~cfg.reset /\ InTable /\ pc = "tableEnd"
    /\ calls.pgCount = 1 /\ postgresCount = db2Count
    /\ db2Count = srcRows[cur] /\ db2Count > 0
    /\ Len(dstRows[cur]) = db2Count

\* C4 as claimed: a failure of table creation or of truncate for one table
\* does not stop the run (only connecting, dropping a schema and ensuring a
\* schema may), so the later tables and the views are still processed.
C4_TableFailureDoesNotStopRun ==
    pc = "aborted" => thrown \in {"connectDB2", "dropSchema", "ensureSchemaExists"}

\* C5 as claimed: whenever a table's transfer loop starts (its first fetch,
\* at offset 0) the destination table is empty, and a finished loop never
\* leaves more than the N source rows in the destination table.
C5_LoopStartsOnEmptyTable ==
    /\ (InTable /\ pc = "fetchChunk" /\ calls.fetch = 0) => dstRows[cur] = <<>>
    /\ LoopEnded => Len(dstRows[cur]) <= srcRows[cur]

\* C6: when reset is enabled, the schema of a table has been dropped and
\* ensured again before the table's processing begins; no destination count
\* is fetched, no table is skipped as in sync and none is truncated; and once
\* the source count of a table with columns has been fetched, the next step
\* is the transfer loop, so every such table that reaches the end of its
\* processing has issued at least one fetchChunk.
C6_ResetBypassesReconciliation ==
    cfg.reset =>
        /\ calls.pgCount = 0 /\ calls.truncate = 0
        /\ tableResult # "inSync"
        /\ pc \notin {"getPostgresRowCount", "truncateTable"}
        /\ InTable => /\ cur.schema \in Range(dropped)
                      /\ cur.schema \in Range(ensured)
                      /\ cur.schema \in dstSchemas
        /\ (InTable /\ calls.db2Count > 0)
              => pc \in {"fetchChunk", "insertIntoPostgres", "tableEnd"}
        /\ (InTable /\ ~NoColumns(columns) /\ pc = "tableEnd") => calls.fetch >= 1

\* C6 witness: with reset enabled the loop is entered for a table whose
\* source count equals the number of rows in the destination table.
C6_Witness ==
    /\ cfg.reset /\ InTable
    /\ pc = "fetchChunk" /\ calls.fetch = 0 /\ calls.db2Count = 1
    /\ db2Count = srcRows[cur]
    /\ Len(dstRows[cur]) = db2Count

\* C7: a table whose column lookup returned no columns is skipped: its
\* processing has ended with no CREATE TABLE, no count query, no truncate,
\* no fetchChunk and no insert, its destination rows are untouched, nothing
\* is thrown, and the next step of the run is the next configured table or,
\* after the last table, the views (or the end of the run when there are none).
C7_NoColumnsSkips ==
    /\ []((InTable /\ columns = 0)
            => /\ pc = "tableEnd"
               /\ calls = NoCalls
               /\ dstRows[cur] = startRows
               /\ thrown = "")
    /\ [][(InTable /\ columns = 0)
            => /\ ti' = ti + 1
               /\ pc' = IF ti < Len(cfg.tables) THEN "getColumns"
                        ELSE IF Len(cfg.views) > 0 THEN "getViewDefinition"
                        ELSE "finish"
               /\ UNCHANGED destination]_vars

\* C7 witness: a first table that exists at the source with rows and differs
\* from the destination is skipped for want of columns.
C7_Witness ==
    /\ InTable /\ columns = 0 /\ pc = "tableEnd"
    /\ ti = 1 /\ Len(cfg.tables) = 2
    /\ srcRows[cur] > 0 /\ Len(dstRows[cur]) # srcRows[cur]

\* C8: a failed view never stops the run: the views are attempted one by
\* one in configured order, each exactly once; once the first view has been
\* attempted the run is never aborted; and the run ends with every view
\* attempted and the source connection closed.
C8_ViewFailureDoesNotStopRun ==
    /\ IsPrefix(vLog, cfg.views)
    /\ pc = "getViewDefinition" => Len(vLog) = vi - 1
    /\ pc = "createView" => Len(vLog) = vi
    /\ vLog # <<>> => pc \in ViewPcs \cup {"finish", "done"}
    /\ pc \in {"finish", "done"} => vLog = cfg.views
    /\ closed <=> pc = "done"
    /\ thrown \notin {"getViewDefinition", "createView"}

\* C8 witness: the first of two views failed (one with an empty definition),
\* the second was created, and the run has ended with the connection closed.
C8_Witness ==
    /\ pc = "done" /\ closed
    /\ Len(cfg.views) = 2 /\ vLog = cfg.views
    /\ cfg.views[1] \notin dstViews
    /\ cfg.views[2] \in dstViews

\* C9: with reset enabled every referenced schema is dropped exactly once,
\* and all of them are dropped before the first ensureSchemaExists and
\* before any table or view is processed; without reset nothing is dropped;
\* after a failed drop no schema has been ensured and no table or view
\* processed; and every referenced schema has been ensured, exactly once,
\* before the first table or view is processed.
C9_DropsBeforeEnsures ==
    /\ ~cfg.reset => dropped = <<>>
    /\ Range(dropped) \subseteq ReferencedSchemas
    /\ \A i, j \in DOMAIN dropped : dropped[i] = dropped[j] => i = j
    /\ \A i, j \in DOMAIN ensured : ensured[i] = ensured[j] => i = j
    /\ (cfg.reset /\ (ensured # <<>> \/ tLog # <<>> \/ vLog # <<>>))
          => Range(dropped) = ReferencedSchemas
    /\ (cfg.reset /\ pc \notin {"connect", "dropSchema", "aborted"})
          => Range(dropped) = ReferencedSchemas
    /\ thrown = "dropSchema" => (ensured = <<>> /\ tLog = <<>> /\ vLog = <<>>)
    /\ (tLog # <<>> \/ vLog # <<>>) => Range(ensured) = ReferencedSchemas

\* C9 witness: a reset run over two tables and a view that name two schemas
\* among them has dropped and ensured each schema once and reached a table.
C9_Witness ==
    /\ cfg.reset /\ tLog # <<>>
    /\ Len(cfg.tables \o cfg.views) > Cardinality(ReferencedSchemas)
    /\ Len(dropped) = 2 /\ Len(ensured) = 2

\* C10: the tables are processed one at a time in configured order (the
\* table in progress is number ti and exactly the tables before it have
\* been begun), no view operation starts before the last configured table
\* has ended, and the views are processed one at a time in configured order.
C10_TablesThenViews ==
    /\ IsPrefix(tLog, cfg.tables)
    /\ IsPrefix(vLog, cfg.views)
    /\ pc = "getColumns" => Len(tLog) = ti - 1
    /\ pc \in TablePcs => Len(tLog) = ti
    /\ (pc \in ViewPcs \/ vLog # <<>>)
          => /\ tLog = cfg.tables
             /\ ti = Len(cfg.tables) + 1
             /\ pc \notin TablePcs \cup {"getColumns"}
    /\ pc = "createView" => Len(vLog) = vi /\ vLog[vi] = curView
    /\ pc = "done" => (tLog = cfg.tables /\ vLog = cfg.views)

\* C10 witness: the second view is being created after both tables ended.
C10_Witness ==
    /\ pc = "createView" /\ vi = 2
    /\ Len(cfg.tables) = 2 /\ tLog = cfg.tables

\* the step that follows the end of the current table's processing
AfterThisTable ==
    IF ti < Len(cfg.tables) THEN "getColumns"
    ELSE IF Len(cfg.views) > 0 THEN "getViewDefinition" ELSE "finish"

\* C18: within one table's transfer loop fetches and inserts strictly
\* alternate (a fetch is issued only when every fetched chunk has been
\* inserted, an insert only for the one chunk just fetched); the k-th fetch
\* uses offset (k-1)*chunkSize; and the offset changes only by a successful
\* insert, which adds chunkSize whatever the length of the inserted chunk
\* (or by the start of the next table, which sets it back to 0).
C18_FetchInsertAlternate ==
    /\ []((InTable /\ pc = "fetchChunk")
            => /\ calls.fetch = calls.insert
               /\ offset = calls.fetch * cfg.chunkSize)
    /\ []((InTable /\ pc = "insertIntoPostgres")
            => /\ calls.fetch = calls.insert + 1
               /\ offset = (calls.fetch - 1) * cfg.chunkSize
               /\ chunk = Page(srcRows[cur], cfg.chunkSize, offset))
    /\ [][offset' # offset
            => \/ /\ pc = "insertIntoPostgres" /\ pc' = "fetchChunk"
                  /\ offset' = offset + cfg.chunkSize
                  /\ dstRows'[cur] = dstRows[cur] \o chunk
                  /\ errs' = errs
               \/ /\ pc = "tableEnd" /\ offset' = 0]_vars

\* C18 witness: after the insert of a chunk shorter than chunkSize the next
\* fetch is due at the offset advanced by a full chunkSize.
C18_Witness ==
    /\ InTable /\ pc = "fetchChunk"
    /\ calls.insert = 2 /\ calls.fetch = 2
    /\ Len(chunk) < cfg.chunkSize
    /\ offset = 2 * cfg.chunkSize

\* C19: after a failed fetchChunk query the table's processing has ended as
\* at end-of-data: the chunk is empty, nothing is thrown or reported as
\* failed, every chunk fetched before was inserted and those rows are the
\* last rows of the destination table; the next step is the next configured
\* table (or the views), with no further fetch or insert for this table and
\* the destination left as it is.
C19_FetchFailureEndsLoop ==
    /\ []((InTable /\ "fetch" \in errs)
            => /\ pc = "tableEnd"
               /\ tableResult = "finished"
               /\ chunk = <<>>
               /\ ~reports.fail /\ reports.succeed
               /\ thrown = ""
               /\ calls.insert = calls.fetch - 1
               /\ inserted = totalFetched
               /\ Len(dstRows[cur]) >= inserted
               /\ SubSeq(dstRows[cur], Len(dstRows[cur]) - inserted + 1,
                         Len(dstRows[cur])) = [i \in 1..inserted |-> i])
    /\ [][(InTable /\ "fetch" \in errs)
            => /\ ti' = ti + 1
               /\ pc' = AfterThisTable
               /\ UNCHANGED destination]_vars

\* C19 witness: the second fetch of a table of three rows failed: the first
\* chunk stays in the destination, the rest was never fetched.
C19_Witness ==
    /\ InTable /\ "fetch" \in errs /\ pc = "tableEnd"
    /\ calls.fetch = 2 /\ inserted > 0
    /\ inserted < srcRows[cur]
    /\ ti < Len(cfg.tables)

\* C20: with reset disabled, a destination count query that failed (it did
\* not return the number of rows of the table) returned -1, and the table is
\* not skipped as in sync whatever the source count is: the next step is the
\* truncate.
C20_FailedCountNeverInSync ==
    (~cfg.reset /\ InTable /\ calls.pgCount > 0
        /\ postgresCount # Len(startRows))
        => /\ postgresCount = -1
           /\ tableResult # "inSync"
           /\ (pc = "truncateTable" \/ calls.truncate = 1)

\* C20 witness: both count queries failed on an empty destination table (the
\* source count reads 0 for a table that has rows): the truncate is next.
C20_Witness ==
    /\ ~cfg.reset /\ InTable /\ pc = "truncateTable"
    /\ postgresCount = -1
    /\ db2Count = 0 /\ srcRows[cur] > 0
    /\ startRows = <<>>

(***************************************************************************)
(* The pure functions, each called on arguments drawn from bounded sets.   *)
(* The replication run is not started in this specification.               *)
(***************************************************************************)
MaxArrayLen == 4
MaxSliceSize == 3

Call(op, args) == [op |-> op, args |-> args, done |-> FALSE, result |-> <<>>]
Return(v) == [fn EXCEPT !.done = TRUE, !.result = v]
Returned(op) == fn.op = op /\ fn.done

RECURSIVE Flatten(_)
Flatten(ss) == IF ss = <<>> THEN <<>> ELSE Head(ss) \o Flatten(Tail(ss))

\* index.js:67-69  for (let i = 0; i < array.length; i += size)
\*                     chunkedArr.push(array.slice(i, i + size))
RECURSIVE chunkArrayFrom(_, _, _)
chunkArrayFrom(array, size, i) ==
    IF i < Len(array)
    THEN <<SubSeq(array, i + 1, Min(i + size, Len(array)))>>
             \o chunkArrayFrom(array, size, i + size)
    ELSE <<>>

\* the loop started at index 1: the first element is lost
chunkArrayFromOne(array, size) == chunkArrayFrom(array, size, 1)

\* index.js:65-71
chunkArray(array, size) == chunkArrayFrom(array, size, 0)

ChunkArrayCalls ==
    {Call("chunkArray", <<a, size>>) :
        a \in UNION {[1..k -> 1..2] : k \in 0..MaxArrayLen},
        size \in 1..MaxSliceSize}

ApplyChunkArray ==
    /\ fn.op = "chunkArray" /\ ~fn.done
    /\ fn' = Return(chunkArray(fn.args[1], fn.args[2]))

(***************************************************************************)
(* Text is a sequence of one-character strings.                            *)
(***************************************************************************)
MaxEnvLen == 3

TextsOver(alphabet, n) == UNION {[1..k -> alphabet] : k \in 0..n}

Digits == {"0", "1", "2", "3", "4", "5", "6", "7", "8", "9"}
DigitValue ==
    ("0" :> 0) @@ ("1" :> 1) @@ ("2" :> 2) @@ ("3" :> 3) @@ ("4" :> 4) @@
    ("5" :> 5) @@ ("6" :> 6) @@ ("7" :> 7) @@ ("8" :> 8) @@ ("9" :> 9)

RECURSIVE TrimStart(_)
TrimStart(s) == IF s # <<>> /\ Head(s) = " " THEN TrimStart(Tail(s)) ELSE s

RECURSIVE DigitPrefix(_)
DigitPrefix(s) ==
    IF s # <<>> /\ Head(s) \in Digits
    THEN <<Head(s)>> \o DigitPrefix(Tail(s)) ELSE <<>>

RECURSIVE Decimal(_)
Decimal(d) ==
    IF d = <<>> THEN 0
    ELSE 10 * Decimal(SubSeq(d, 1, Len(d) - 1)) + DigitValue[d[Len(d)]]

\* a JavaScript number: NaN, or the integer n
NaN == [nan |-> TRUE, n |-> 0]
Num(n) == [nan |-> FALSE, n |-> n]

\* an environment variable: not set, or set to a text
Unset == [set |-> FALSE, text |-> <<>>]
SetTo(text) == [set |-> TRUE, text |-> text]

\* parseInt(string, 10): leading white space is skipped, then an optional
\* sign, then the longest run of decimal digits; NaN when there is no digit.
\* parseInt(undefined, 10) parses the text "undefined": NaN.
parseInt(env) ==
    IF ~env.set THEN NaN
    ELSE LET t == TrimStart(env.text)
             signed == t # <<>> /\ Head(t) \in {"+", "-"}
             d == DigitPrefix(IF signed THEN Tail(t) ELSE t)
         IN IF d = <<>> THEN NaN
            ELSE IF signed /\ Head(t) = "-" THEN Num(0 - Decimal(d))
            ELSE Num(Decimal(d))

\* the left operand of || is taken when it is truthy: not NaN and not 0
Truthy(v) == ~v.nan /\ v.n # 0

\* config.js:38  chunkSize: parseInt(process.env.CHUNK_SIZE, 10) || 1000
chunkSize(env) ==
    LET parsed == parseInt(env)
    IN IF Truthy(parsed) THEN parsed.n ELSE 1000

ChunkSizeCalls ==
    {Call("chunkSize", <<env>>) :
        env \in {Unset} \cup
                {SetTo(t) : t \in TextsOver({" ", "-", "0", "2", "5", "x"}, MaxEnvLen)}}

ApplyChunkSize ==
    /\ fn.op = "chunkSize" /\ ~fn.done
    /\ fn' = Return(chunkSize(fn.args[1]))

(***************************************************************************)
(* index.js:14-29  mapDb2ToPostgresType                                    *)
(***************************************************************************)
MaxTypeLength == 2

\* a JavaScript value returned by a property lookup: a string, given by
\* the pieces of its template, a function object, or undefined
Str(parts) == [kind |-> "string", parts |-> parts]
Inherited(name) == [kind |-> "object", parts |-> <<"Object.prototype", name>>]
Undefined == [kind |-> "undefined", parts |-> <<>>]

\* index.js:15-27: the own properties of the typeMapping object literal
typeMapping(length) ==
    ("INTEGER" :> Str(<<"INTEGER">>)) @@
    ("SMALLINT" :> Str(<<"SMALLINT">>)) @@
    ("BIGINT" :> Str(<<"BIGINT">>)) @@
    ("DECIMAL" :> Str(<<"DECIMAL(", length, ",2)">>)) @@
    ("DOUBLE" :> Str(<<"DOUBLE PRECISION">>)) @@
    ("REAL" :> Str(<<"REAL">>)) @@
    ("CHAR" :> Str(<<"TEXT">>)) @@
    ("VARCHAR" :> Str(<<"TEXT">>)) @@
    ("CLOB" :> Str(<<"TEXT">>)) @@
    ("DATE" :> Str(<<"DATE">>)) @@
    ("TIMESTAMP" :> Str(<<"TIMESTAMP">>))

\* what an object literal inherits from Object.prototype
ObjectPrototype ==
    {"constructor", "toString", "toLocaleString", "valueOf", "hasOwnProperty",
     "isPrototypeOf", "propertyIsEnumerable", "__proto__",
     "__defineGetter__", "__defineSetter__", "__lookupGetter__",
     "__lookupSetter__"}

\* object[key]: an own property, else one found on the prototype, else
\* undefined
Lookup(object, key) ==
    IF key \in DOMAIN object THEN object[key]
    ELSE IF key \in ObjectPrototype THEN Inherited(key)
    ELSE Undefined

\* index.js:28  return typeMapping[db2Type] || "TEXT"
mapDb2ToPostgresType(db2Type, length) ==
    LET found == Lookup(typeMapping(length), db2Type)
    IN IF found.kind # "undefined" THEN found ELSE Str(<<"TEXT">>)

Db2TypeNames ==
    DOMAIN typeMapping(0) \cup
        {"", "BLOB", "GRAPHIC", "integer", "constructor", "toString", "__proto__"}

MapTypeCalls ==
    {Call("mapDb2ToPostgresType", <<t, length>>) :
        t \in Db2TypeNames, length \in 0..MaxTypeLength}

ApplyMapType ==
    /\ fn.op = "mapDb2ToPostgresType" /\ ~fn.done
    /\ fn' = Return(mapDb2ToPostgresType(fn.args[1], fn.args[2]))

(***************************************************************************)
(* index.js:48-60  formatValue                                             *)
(***************************************************************************)
MaxValueLen == 3

\* a JavaScript value: null, a string or a number
JsNull == [kind |-> "null", text |-> <<>>, n |-> 0]
JsString(text) == [kind |-> "string", text |-> text, n |-> 0]
JsNumber(n) == [kind |-> "number", text |-> <<>>, n |-> n]

DigitChar == <<"0", "1", "2", "3", "4", "5", "6", "7", "8", "9">>

RECURSIVE NumberText(_)
NumberText(n) ==
    IF n < 10 THEN <<DigitChar[n + 1]>>
    ELSE NumberText(n \div 10) \o <<DigitChar[(n % 10) + 1]>>

\* String(value), and the text `${value}` puts into a template
StringOf(value) ==
    IF value.kind = "number" THEN NumberText(value.n)
    ELSE IF value.kind = "null" THEN <<"n", "u", "l", "l">>
    ELSE value.text

RECURSIVE TrimEnd(_)
TrimEnd(s) ==
    IF s # <<>> /\ s[Len(s)] = " " THEN TrimEnd(SubSeq(s, 1, Len(s) - 1)) ELSE s

\* String.prototype.trim
trim(s) == TrimEnd(TrimStart(s))

\* only the first quote is doubled
replaceFirstQuote(s) ==
    IF \E i \in 1..Len(s) : s[i] = "'"
    THEN LET i == CHOOSE i \in 1..Len(s) :
                      s[i] = "'" /\ \A j \in 1..i - 1 : s[j] # "'"
         IN SubSeq(s, 1, i) \o <<"'">> \o SubSeq(s, i + 1, Len(s))
    ELSE s

RECURSIVE replaceQuotesFrom(_)
replaceQuotesFrom(s) ==
    IF s = <<>> THEN <<>>
    ELSE IF Head(s) = "'" THEN <<"'", "'">> \o replaceQuotesFrom(Tail(s))
    ELSE <<Head(s)>> \o replaceQuotesFrom(Tail(s))

\* index.js:51  .replace(/'/g, "''")
replaceQuotes(s) == replaceQuotesFrom(s)

\* String.prototype.includes
includes(s, part) ==
    \E i \in 1..Len(s) + 1 :
        /\ i + Len(part) - 1 <= Len(s)
        /\ SubSeq(s, i, i + Len(part) - 1) = part

\* `'${text}'`
Quoted(text) == <<"'">> \o text \o <<"'">>

TextWord == <<"T", "E", "X", "T">>
CharWord == <<"C", "H", "A", "R">>
TimestampWord == <<"T", "I", "M", "E", "S", "T", "A", "M", "P">>
DateWord == <<"D", "A", "T", "E">>
IntegerWord == <<"I", "N", "T", "E", "G", "E", "R">>
SmallintWord == <<"S", "M", "A", "L", "L", "I", "N", "T">>
BigintWord == <<"B", "I", "G", "I", "N", "T">>
DecimalWord == <<"D", "E", "C", "I", "M", "A", "L">>
NumericWord == <<"N", "U", "M", "E", "R", "I", "C">>
DoubleWord == <<"D", "O", "U", "B", "L", "E">>
RealWord == <<"R", "E", "A", "L">>

\* index.js:50
IsTextType(type) == includes(type, TextWord) \/ includes(type, CharWord)
\* index.js:53
IsTemporalType(type) == includes(type, TimestampWord) \/ includes(type, DateWord)
\* index.js:56
IsNumericType(type) ==
    \E word \in {IntegerWord, SmallintWord, BigintWord, DecimalWord,
                 NumericWord, DoubleWord, RealWord} : includes(type, word)

\* index.js:48-60
formatValue(value, type) ==
    IF value = JsNull \/ value = JsString(<<>>)
    THEN JsString(<<"N", "U", "L", "L">>)
    ELSE IF IsTextType(type)
    THEN JsString(Quoted(replaceQuotes(trim(StringOf(value)))))
    ELSE IF IsTemporalType(type) THEN JsString(Quoted(StringOf(value)))
    ELSE IF IsNumericType(type) THEN value
    ELSE JsString(Quoted(StringOf(value)))

DestinationTypes ==
    {<<"T", "E", "X", "T">>,
     <<"V", "A", "R", "C", "H", "A", "R", "(", "9", ")">>,
     <<"C", "H", "A", "R", "A", "C", "T", "E", "R">>,
     <<"T", "I", "M", "E", "S", "T", "A", "M", "P">>,
     <<"D", "A", "T", "E">>,
     <<"I", "N", "T", "E", "G", "E", "R">>,
     <<"S", "M", "A", "L", "L", "I", "N", "T">>,
     <<"B", "I", "G", "I", "N", "T">>,
     <<"D", "E", "C", "I", "M", "A", "L", "(", "9", ",", "2", ")">>,
     <<"N", "U", "M", "E", "R", "I", "C">>,
     <<"D", "O", "U", "B", "L", "E", " ", "P", "R", "E", "C", "I", "S", "I", "O", "N">>,
     <<"R", "E", "A", "L">>,
     <<"B", "O", "O", "L", "E", "A", "N">>,
     <<"B", "Y", "T", "E", "A">>,
     <<"t", "e", "x", "t">>,
     <<>>,
     <<"D", "A", "T", "E", "_", "T", "E", "X", "T">>,
     <<"R", "E", "A", "L", "_", "D", "A", "T", "E">>}

FormatValues ==
    {JsNull} \cup {JsNumber(n) : n \in {0, 7, 42}}
        \cup {JsString(t) : t \in TextsOver({" ", "'", "a"}, MaxValueLen)}

FormatValueCalls ==
    {Call("formatValue", <<v, t>>) : v \in FormatValues, t \in DestinationTypes}

ApplyFormatValue ==
    /\ fn.op = "formatValue" /\ ~fn.done
    /\ fn' = Return(formatValue(fn.args[1], fn.args[2]))

(***************************************************************************)
(* config.js:3-16  parseEnvList                                            *)
(***************************************************************************)
MaxEntries == 2

\* String.prototype.split(separator): the pieces between the separators;
\* a text without separator, the empty text too, is one piece
RECURSIVE split(_, _)
split(s, separator) ==
    IF \E i \in 1..Len(s) : s[i] = separator
    THEN LET i == CHOOSE i \in 1..Len(s) :
                      s[i] = separator /\ \A j \in 1..i - 1 : s[j] # separator
         IN <<SubSeq(s, 1, i - 1)>> \o split(SubSeq(s, i + 1, Len(s)), separator)
    ELSE <<s>>

\* config.js:11-12  return null
null == [schema |-> <<>>, table |-> <<>>]

\* only the table is tested
MalformedTableOnly(segments) == Len(segments) < 2 \/ segments[2] = <<>>

\* config.js:9-10  const [schema, table] = entry.split('.')
\*                 if (!schema || !table): table is undefined when there is
\*                 no second segment
Malformed(segments) ==
    \/ segments[1] = <<>>
    \/ Len(segments) < 2
    \/ segments[2] = <<>>

\* config.js:8-15
parseEntry(entry) ==
    LET segments == split(entry, ".")
    IN IF Malformed(segments) THEN null
       ELSE Target(segments[1], segments[2])

NonEmpty(entry) == Len(entry) > 0
NotNull(entry) == entry # null

\* config.js:3-16
parseEnvList(env) ==
    LET text == IF env.set THEN env.text ELSE <<>>
        pieces == split(text, ",")
        trimmed == [i \in 1..Len(pieces) |-> trim(pieces[i])]
        entries == SelectSeq(trimmed, NonEmpty)
        parsed == [i \in 1..Len(entries) |-> parseEntry(entries[i])]
    IN SelectSeq(parsed, NotNull)

RECURSIVE Join(_)
Join(entries) ==
    IF entries = <<>> THEN <<>>
    ELSE IF Len(entries) = 1 THEN entries[1]
    ELSE entries[1] \o <<",">> \o Join(Tail(entries))

EntryTexts ==
    {<<"a", ".", "b">>,
     <<"b", ".", "a">>,
     <<" ", "a", ".", "b", " ">>,
     <<"a", " ", "b", ".", "a">>,
     <<"a">>,
     <<"a", ".">>,
     <<".", "b">>,
     <<".">>,
     <<>>,
     <<" ">>,
     <<"a", ".", "b", ".", "a">>,
     <<"a", ".", ".", "b">>,
     <<"a", ".", "b", ".">>}

\* the value of the variable, and the entries it was written from
ParseEnvListCalls ==
    {Call("parseEnvList", <<Unset, <<>>>>)} \cup
    {Call("parseEnvList", <<SetTo(Join(es)), es>>) :
        es \in UNION {[1..k -> EntryTexts] : k \in 0..MaxEntries}}

ApplyParseEnvList ==
    /\ fn.op = "parseEnvList" /\ ~fn.done
    /\ fn' = Return(parseEnvList(fn.args[1]))

(***************************************************************************)
(* db2.js:144-172  getViewDefinition: the text it makes of the row that    *)
(* SYSCAT.VIEWS holds for the view                                         *)
(***************************************************************************)
LowerCase ==
    <<"a", "b", "c", "d", "e", "f", "g", "h", "i", "j", "k", "l",
           "m", "n", "o", "p", "q", "r", "s", "t", "u", "v", "w",
           "x", "y", "z">>
UpperCase ==
    <<"A", "B", "C", "D", "E", "F", "G", "H", "I", "J", "K", "L",
           "M", "N", "O", "P", "Q", "R", "S", "T", "U", "V", "W",
           "X", "Y", "Z">>

\* String.prototype.toUpperCase
toUpperCase(s) ==
    [i \in 1..Len(s) |->
        IF \E k \in 1..Len(LowerCase) : LowerCase[k] = s[i]
        THEN UpperCase[CHOOSE k \in 1..Len(LowerCase) : LowerCase[k] = s[i]]
        ELSE s[i]]

StartsWith(s, part) == Len(part) <= Len(s) /\ SubSeq(s, 1, Len(part)) = part

\* String.prototype.indexOf: the 0-based index of the first occurrence, or -1
indexOf(s, part) ==
    IF includes(s, part)
    THEN (CHOOSE i \in 1..Len(s) + 1 :
              /\ StartsWith(SubSeq(s, i, Len(s)), part)
              /\ \A j \in 1..i - 1 : ~StartsWith(SubSeq(s, j, Len(s)), part)) - 1
    ELSE -1

\* String.prototype.substring(start), start 0-based
substring(s, start) == SubSeq(s, start + 1, Len(s))

\* String.prototype.replace with a global pattern
RECURSIVE replaceAll(_, _, _)
replaceAll(s, pattern, replacement) ==
    IF s = <<>> THEN <<>>
    ELSE IF StartsWith(s, pattern)
    THEN replacement \o replaceAll(substring(s, Len(pattern)), pattern, replacement)
    ELSE <<Head(s)>> \o replaceAll(Tail(s), pattern, replacement)

\* db2.js:162
XrefName ==
    <<"E", "D", "M", "_", "C", "O", "M", "P", ".", "L", "O", "C",
           "N", "_", "C", "O", "M", "P", "A", "N", "Y", "_", "X",
           "R", "E", "F">>
XrefQuoted ==
    <<"\"", "E", "D", "M", "_", "C", "O", "M", "P", "\"", ".", "\"",
           "L", "O", "C", "N", "_", "C", "O", "M", "P", "A", "N",
           "Y", "_", "X", "R", "E", "F", "\"">>

\* the keyword looked for
AsWord == <<"A", "S">>

\* db2.js:158  viewDefinition.toUpperCase().indexOf('AS')
asIndex(text) == indexOf(toUpperCase(text), AsWord)

\* what db2.query gives: an error, no row, or a row with its TEXT column
QueryError == [kind |-> "error", text |-> <<>>]
NoRow == [kind |-> "empty", text |-> <<>>]
Row(text) == [kind |-> "row", text |-> text]

\* db2.js:144-172
getViewDefinition(outcome) ==
    IF outcome.kind = "error" THEN <<>>
    ELSE IF outcome.kind = "row" /\ outcome.text # <<>>
    THEN IF asIndex(outcome.text) # -1
         THEN replaceAll(trim(substring(outcome.text, asIndex(outcome.text) + 2)),
                         XrefName, XrefQuoted)
         ELSE <<>>
    ELSE <<>>

ViewDefinitionTexts ==
    {<<"C", "R", "E", "A", "T", "E", " ", "V", "I", "E", "W", " ",
            "S", ".", "V", " ", "A", "S", " ", "S", "E", "L", "E",
            "C", "T", " ", "1">>,
     <<"c", "r", "e", "a", "t", "e", " ", "v", "i", "e", "w", " ",
            "s", ".", "v", " ", "a", "s", " ", "s", "e", "l", "e",
            "c", "t", " ", "1">>,
     <<"C", "R", "E", "A", "T", "E", " ", "V", "I", "E", "W", " ",
            "S", ".", "V", " ", "A", "S", " ", " ", "S", "E", "L",
            "E", "C", "T", " ", "1", " ">>,
     <<"C", "R", "E", "A", "T", "E", " ", "V", "I", "E", "W", " ",
            "S", ".", "L", "A", "S", "T", " ", "A", "S", " ", "S",
            "E", "L", "E", "C", "T", " ", "1">>,
     <<"C", "R", "E", "A", "T", "E", " ", "V", "I", "E", "W", " ",
            "B", "A", "S", "E", ".", "V", " ", "A", "S", " ", "S",
            "E", "L", "E", "C", "T", " ", "1">>,
     <<"C", "R", "E", "A", "T", "E", " ", "V", "I", "E", "W", " ",
            "S", ".", "V", " ", "(", "A", "S", "S", "E", "T", ")",
            " ", "A", "S", " ", "S", "E", "L", "E", "C", "T", " ", "1">>,
     <<"C", "R", "E", "A", "T", "E", " ", "V", "I", "E", "W", " ",
            "S", ".", "V", " ", "A", "S", " ", "S", "E", "L", "E",
            "C", "T", " ", "*", " ", "F", "R", "O", "M", " ", "E",
            "D", "M", "_", "C", "O", "M", "P", ".", "L", "O", "C",
            "N", "_", "C", "O", "M", "P", "A", "N", "Y", "_", "X",
            "R", "E", "F">>,
     <<"S", "E", "L", "E", "C", "T", " ", "1">>,
     <<>>}

GetViewDefinitionCalls ==
    {Call("getViewDefinition", <<o>>) :
        o \in {QueryError, NoRow} \cup {Row(t) : t \in ViewDefinitionTexts}}

ApplyGetViewDefinition ==
    /\ fn.op = "getViewDefinition" /\ ~fn.done
    /\ fn' = Return(getViewDefinition(fn.args[1]))

(***************************************************************************)
(* postgres.js:84-127  insertIntoPostgres, one step for each sub-batch     *)
(***************************************************************************)
MaxColumns == 2

\* the rows of a chunk are distinct objects; row[col.name] of the j-th
\* column is the cell of that row and column
Cell(row, j) == <<row, j>>

\* chunk.slice(i, i + batchSize), i 0-based
slice(s, from, to) == SubSeq(s, from + 1, Min(to, Len(s)))

\* batch.indexOf(row): 0-based index of the first element that is this row
batchIndexOf(batch, row) ==
    LET at == {p \in 1..Len(batch) : batch[p] = row}
    IN IF at = {} THEN -1 ELSE (CHOOSE p \in at : \A q \in at : p <= q) - 1

\* the row index is not multiplied by the number of columns
placeholderRowOnly(index, columnsLength, rowIndex) == index + 1 + rowIndex

\* postgres.js:98  $${index + 1 + columns.length * batch.indexOf(row)}
placeholder(index, columnsLength, rowIndex) ==
    index + 1 + columnsLength * rowIndex

\* postgres.js:97-99: for each row of the batch, the parameter numbers of
\* its columns
valuePlaceholders(batch, k) ==
    [r \in 1..Len(batch) |->
        [j \in 1..k |-> placeholder(j - 1, k, batchIndexOf(batch, batch[r]))]]

\* postgres.js:100  batch.flatMap(row => columns.map(col => row[col.name]))
flatValues(batch, k) ==
    IF k = 0 THEN <<>>
    ELSE [p \in 1..k * Len(batch) |->
             Cell(batch[((p - 1) \div k) + 1], ((p - 1) % k) + 1)]

ChunkLengths == {0, 1, 2, 3, 1000, 1001, 2001}

InsertCalls ==
    {[op |-> "insertIntoPostgres", args |-> <<k, [r \in 1..n |-> r]>>,
      done |-> FALSE, result |-> 0, i |-> 0, totalInserted |-> 0,
      queries |-> <<>>, thrown |-> FALSE] :
        k \in 0..MaxColumns, n \in ChunkLengths}

\* postgres.js:85-126
InsertSubBatch ==
    /\ fn.op = "insertIntoPostgres" /\ ~fn.done
    /\ LET k == fn.args[1]
           rows == fn.args[2]
           batch == slice(rows, fn.i, fn.i + batchSize)
           placeholders == valuePlaceholders(batch, k)
           values == flatValues(batch, k)
           query(rowCount) == [first |-> fn.i, placeholders |-> placeholders,
                               values |-> values, rowCount |-> rowCount]
       IN \/ /\ Len(rows) = 0
             /\ fn' = [fn EXCEPT !.done = TRUE, !.result = 0]
          \/ /\ Len(rows) # 0 /\ fn.i >= Len(rows)
             /\ fn' = [fn EXCEPT !.done = TRUE, !.result = fn.totalInserted]
          \/ /\ Len(rows) # 0 /\ fn.i < Len(rows)
             /\ Len(values) = 0 \/ Len(values) # k * Len(batch)
             /\ fn' = [fn EXCEPT !.i = fn.i + batchSize]
          \/ /\ Len(rows) # 0 /\ fn.i < Len(rows)
             /\ Len(values) # 0 /\ Len(values) = k * Len(batch)
             /\ \/ fn' = [fn EXCEPT !.queries = Append(@, query(Len(batch))),
                                    !.totalInserted = @ + Len(batch),
                                    !.i = fn.i + batchSize]
                \/ fn' = [fn EXCEPT !.queries = Append(@, query(0)),
                                    !.thrown = TRUE, !.done = TRUE]

\* the run's own state while only the pure functions are exercised
PureInit ==
    /\ cfg = [reset |-> FALSE, tables |-> <<>>, views |-> <<>>, chunkSize |-> 1]
    /\ srcRows = [t \in TableTargets |-> 0]
    /\ dstTables = {} /\ dstSchemas = {} /\ dstViews = {}
    /\ dstRows = [t \in TableTargets |-> <<>>]
    /\ pc = "notStarted"
    /\ si = 1 /\ ti = 1 /\ vi = 1
    /\ columns = 0 /\ db2Count = 0 /\ postgresCount = 0 /\ offset = 0
    /\ totalFetched = 0 /\ chunk = <<>> /\ viewDefinition = ""
    /\ inserted = 0 /\ calls = NoCalls /\ tableResult = "none"
    /\ reports = NoReports /\ errs = {} /\ startRows = <<>>
    /\ dropped = <<>> /\ ensured = <<>> /\ tLog = <<>> /\ vLog = <<>>
    /\ thrown = "" /\ closed = FALSE
    /\ run = FirstRun
    /\ \/ fn \in ChunkArrayCalls
       \/ fn \in ChunkSizeCalls
       \/ fn \in MapTypeCalls
       \/ fn \in FormatValueCalls
       \/ fn \in ParseEnvListCalls
       \/ fn \in GetViewDefinitionCalls
       \/ fn \in InsertCalls

runState == <<cfg, srcRows, destination, pc, si, ti, vi, tableLocals,
              viewDefinition, runLog, thrown>>

PureNext ==
    /\ UNCHANGED <<runState, run>>
    /\ \/ ApplyChunkArray
       \/ ApplyChunkSize
       \/ ApplyMapType
       \/ ApplyFormatValue
       \/ ApplyParseEnvList
       \/ ApplyGetViewDefinition
       \/ InsertSubBatch

PureSpec == PureInit /\ [][PureNext]_vars

\* C13: chunkArray(array, size) with size a positive integer returns
\* consecutive slices in order: their concatenation is the array, there are
\* ceil(length/size) of them, every slice but the last has exactly size
\* elements, the last has between 1 and size, and the empty array gives no
\* slice at all.
C13_ChunkArrayPartitions ==
    Returned("chunkArray") =>
        LET array == fn.args[1]
            size == fn.args[2]
            r == fn.result
        IN /\ Flatten(r) = array
           /\ Len(r) = CeilDiv(Len(array), size)
           /\ \A i \in 1..Len(r) - 1 : Len(r[i]) = size
           /\ Len(r) > 0 => (Len(r[Len(r)]) >= 1 /\ Len(r[Len(r)]) <= size)
           /\ array = <<>> => r = <<>>

\* C13 witness: four elements in slices of three: a full slice and a short one.
C13_Witness ==
    /\ Returned("chunkArray")
    /\ fn.args = <<(<<1, 2, 1, 2>>), 3>>
    /\ fn.result = <<(<<1, 2, 1>>), (<<2>>)>>

\* C17: the configured chunkSize is always a positive integer: the parsed
\* CHUNK_SIZE when that is given as a number, and 1000 when CHUNK_SIZE is
\* absent or not a number, for every CHUNK_SIZE input.
C17_ChunkSizePositive ==
    Returned("chunkSize") =>
        LET env == fn.args[1]
            parsed == parseInt(env)
        IN /\ fn.result > 0
           /\ (~env.set \/ parsed.nan) => fn.result = 1000
           /\ (env.set /\ ~parsed.nan /\ parsed.n > 0) => fn.result = parsed.n

\* C14: mapDb2ToPostgresType is total: for every type name of its mapping
\* table it returns the mapped, non-empty destination type, for DECIMAL it
\* returns DECIMAL(<length>,2) with the supplied length, and for every type
\* name that is not in the table it returns the text type TEXT.
C14_MapTypeTotal ==
    Returned("mapDb2ToPostgresType") =>
        LET db2Type == fn.args[1]
            length == fn.args[2]
            table == typeMapping(length)
        IN /\ fn.result.kind = "string"
           /\ fn.result.parts # <<>>
           /\ db2Type \in DOMAIN table => fn.result = table[db2Type]
           /\ db2Type = "DECIMAL" =>
                  fn.result = Str(<<"DECIMAL(", length, ",2)">>)
           /\ db2Type \notin DOMAIN table => fn.result = Str(<<"TEXT">>)

\* s is text with white space added in front and behind, and text has none
\* at either end
IsTrimOf(text, s) ==
    /\ \E i, j \in 0..Len(s) :
           s = [k \in 1..i |-> " "] \o text \o [k \in 1..j |-> " "]
    /\ text # <<>> => (Head(text) # " " /\ text[Len(text)] # " ")

\* d read with every pair of quotes as one quote; a quote that stands alone
\* is marked
RECURSIVE Undoubled(_)
Undoubled(d) ==
    IF d = <<>> THEN <<>>
    ELSE IF Head(d) # "'" THEN <<Head(d)>> \o Undoubled(Tail(d))
    ELSE IF Len(d) >= 2 /\ d[2] = "'" THEN <<"'">> \o Undoubled(Tail(Tail(d)))
    ELSE <<"unpaired">> \o Undoubled(Tail(d))

\* C15: formatValue applies its rules in priority order: null or the empty
\* string gives NULL for any type; otherwise a text or character type gives
\* the trimmed value in single quotes with every quote inside doubled;
\* otherwise a temporal type gives the value in single quotes unchanged;
\* otherwise a numeric type gives the value itself, unquoted; otherwise the
\* value in single quotes.
C15_FormatValueRules ==
    Returned("formatValue") =>
        LET value == fn.args[1]
            type == fn.args[2]
            r == fn.result
            inner == SubSeq(r.text, 2, Len(r.text) - 1)
            quoted == /\ r.kind = "string" /\ Len(r.text) >= 2
                      /\ r.text[1] = "'" /\ r.text[Len(r.text)] = "'"
        IN IF value.kind = "null" \/ (value.kind = "string" /\ value.text = <<>>)
           THEN r = JsString(<<"N", "U", "L", "L">>)
           ELSE IF IsTextType(type)
           THEN /\ quoted
                /\ IsTrimOf(Undoubled(inner), StringOf(value))
                /\ \A i \in 1..Len(Undoubled(inner)) :
                       Undoubled(inner)[i] # "unpaired"
           ELSE IF IsTemporalType(type)
           THEN quoted /\ inner = StringOf(value)
           ELSE IF IsNumericType(type)
           THEN r = value
           ELSE quoted /\ inner = StringOf(value)

\* C15 witness: a text with two quotes and a trailing blank, for a type
\* that names both a text and a temporal type: trimmed, both quotes
\* doubled, in quotes.
C15_Witness ==
    /\ Returned("formatValue")
    /\ fn.args[1] = JsString(<<"'", "'", " ">>)
    /\ IsTextType(fn.args[2]) /\ IsTemporalType(fn.args[2])
    /\ fn.result = JsString(<<"'", "'", "'", "'", "'", "'">>)

\* the entry without the white space around it
Core(entry) ==
    CHOOSE t \in {SubSeq(entry, i, j) : i \in 1..Len(entry) + 1, j \in 0..Len(entry)} :
        IsTrimOf(t, entry)

FirstDot(t) == CHOOSE p \in 1..Len(t) : t[p] = "." /\ \A q \in 1..p - 1 : t[q] # "."

\* a non-empty schema segment, a dot, a non-empty name segment
WellFormed(entry) ==
    LET t == Core(entry)
    IN /\ \E p \in 1..Len(t) : t[p] = "."
       /\ FirstDot(t) > 1
       /\ FirstDot(t) < Len(t)
       /\ t[FirstDot(t) + 1] # "."

SchemaSegment(entry) == SubSeq(Core(entry), 1, FirstDot(Core(entry)) - 1)
NameSegment(entry) ==
    LET t == Core(entry)
        rest == SubSeq(t, FirstDot(t) + 1, Len(t))
    IN IF \E p \in 1..Len(rest) : rest[p] = "."
       THEN SubSeq(rest, 1, FirstDot(rest) - 1) ELSE rest

SegmentsOf(entry) == Target(SchemaSegment(entry), NameSegment(entry))

\* C16: parsing a comma-separated list keeps, in their order, exactly the
\* entries that have a non-empty schema segment and a non-empty name segment
\* separated by a dot, as those two segments; an entry without a dot or with
\* one of the two empty is dropped, and the well-formed entries beside it
\* stay.
C16_KeepsWellFormedEntries ==
    Returned("parseEnvList") =>
        LET kept == SelectSeq(fn.args[2], WellFormed)
        IN fn.result = [i \in 1..Len(kept) |-> SegmentsOf(kept[i])]

\* C16 witness: a malformed entry in front of a well-formed one: the
\* well-formed one is kept.
C16_Witness ==
    /\ Returned("parseEnvList")
    /\ Len(fn.args[2]) = 2
    /\ ~WellFormed(fn.args[2][1]) /\ fn.args[2][1] # <<>>
    /\ WellFormed(fn.args[2][2])
    /\ fn.result = <<Target(<<"b">>, <<"a">>)>>

\* AS stands as a word of its own at the 1-based position p of text
IsAsKeywordAt(text, p) ==
    /\ p + 1 <= Len(text)
    /\ toUpperCase(SubSeq(text, p, p + 1)) = AsWord
    /\ p = 1 \/ text[p - 1] = " "
    /\ p + 1 = Len(text) \/ text[p + 2] = " "

\* C12: getViewDefinition returns the view text with its CREATE VIEW ... AS
\* prefix stripped: what follows the first occurrence, in either case, of
\* the keyword AS, whatever the schema, view and column names are; it
\* returns the empty text when the text has no AS, when there is no row and
\* when the query fails.  (The white space trimmed off and the quoting of
\* EDM_COMP.LOCN_COMPANY_XREF are granted to the code here.)
C12_StripsCreateViewPrefix ==
    Returned("getViewDefinition") =>
        LET outcome == fn.args[1]
            text == outcome.text
            keywordAt == {p \in 1..Len(text) : IsAsKeywordAt(text, p)}
            first == CHOOSE p \in keywordAt : \A q \in keywordAt : p <= q
        IN /\ outcome.kind # "row" => fn.result = <<>>
           /\ (outcome.kind = "row" /\ ~includes(toUpperCase(text), AsWord)) =>
                  fn.result = <<>>
           /\ (outcome.kind = "row" /\ keywordAt # {}) =>
                  fn.result = replaceAll(trim(SubSeq(text, first + 2, Len(text))),
                                         XrefName, XrefQuoted)

RECURSIVE SumRowCounts(_)
SumRowCounts(queries) ==
    IF queries = <<>> THEN 0
    ELSE Head(queries).rowCount + SumRowCounts(Tail(queries))

\* the q-th statement covers the q-th run of at most 1000 rows of the chunk,
\* in order, and binds column j of its i-th row to parameter i*k + j + 1
CoversSubBatch(rows, k, queries, q) ==
    LET first == (q - 1) * 1000
        count == Min(1000, Len(rows) - first)
        query == queries[q]
    IN /\ count >= 1
       /\ Len(query.placeholders) = count
       /\ Len(query.values) = count * k
       /\ \A i \in 0..count - 1 : \A j \in 0..k - 1 :
              /\ query.placeholders[i + 1][j + 1] = i * k + j + 1
              /\ query.values[i * k + j + 1] = Cell(rows[first + i + 1], j + 1)

\* C11: insertIntoPostgres on a chunk of n rows and k >= 1 columns issues
\* exactly ceil(n/1000) INSERT statements, each for at most 1000 consecutive
\* rows of the chunk in order, with column j of row i of the sub-batch bound
\* to parameter i*k + j + 1, and returns the sum of the affected-row counts;
\* for n = 0 it issues no statement and returns 0; a failed statement is
\* thrown on and no later sub-batch is attempted.
C11_InsertBatches ==
    /\ [](fn.op = "insertIntoPostgres" /\ fn.args[1] >= 1 =>
            LET k == fn.args[1]
                rows == fn.args[2]
            IN /\ \A q \in 1..Len(fn.queries) :
                      CoversSubBatch(rows, k, fn.queries, q)
               /\ (fn.done /\ ~fn.thrown) =>
                      /\ Len(fn.queries) = CeilDiv(Len(rows), 1000)
                      /\ fn.result = SumRowCounts(fn.queries)
                      /\ Len(rows) = 0 => (fn.queries = <<>> /\ fn.result = 0)
               /\ fn.thrown => fn.done)
    /\ [][fn.op = "insertIntoPostgres" /\ fn.thrown => fn' = fn]_vars

\* C11 witness: 2001 rows of two columns went out in three statements.
C11_Witness ==
    /\ fn.op = "insertIntoPostgres" /\ fn.done /\ ~fn.thrown
    /\ fn.args[1] = 2 /\ Len(fn.args[2]) = 2001
    /\ Len(fn.queries) = 3 /\ fn.result = 2001
    /\ Len(fn.queries[3].placeholders) = 1

\* a first run: the destination database holds none of the tables yet
LiveInit == Init /\ dstTables = {}

\* the run goes on whenever the call it awaits has returned or failed
LiveSpec == LiveInit /\ [][Next]_vars /\ WF_vars(Next)

\* the transfer loop of table number k is running
InLoop(k) == ti = k /\ pc \in {"fetchChunk", "insertIntoPostgres"}

\* C21: for a finite source table and a positive chunk size the transfer
\* loop of every table terminates: it makes at most ceil(N/C) + 1 fetches,
\* it ends on an empty chunk or on an exception of the insert, and the run
\* over the configured tables and views eventually stops.
C21_LoopAndRunTerminate ==
    /\ [](InTable => calls.fetch <= CeilDiv(srcRows[cur], cfg.chunkSize) + 1)
    /\ [](LoopEnded => (ChunkIsEmpty(chunk) \/ "insert" \in errs))
    /\ \A k \in 1..2 : InLoop(k) ~> (ti = k /\ pc = "tableEnd")
    /\ <>[](pc \in {"done", "aborted"})

\* C21 witness: the loop of a table of MaxRows rows has ended on the empty
\* chunk after more than two fetches.
C21_Witness ==
    /\ LoopEnded /\ ChunkIsEmpty(chunk)
    /\ srcRows[cur] = MaxRows /\ calls.fetch > 2 /\ inserted = MaxRows

RerunNext == Next \/ Rerun

\* a run, and after a run in which nothing failed a second one
RerunSpec == Init /\ [][RerunNext]_vars

\* C22: after a run in which no operation failed, a second run with reset
\* disabled against the unchanged source skips every table as in sync: it
\* issues no truncate, no fetchChunk and no insert and leaves every
\* destination table as it was.  (Granted here: no operation of the second
\* run has failed either.)
C22_RerunSkipsInSync ==
    (run.n = 2 /\ run.clean /\ ~TableFailed) =>
        /\ dstRows = run.before
        /\ calls.truncate = 0 /\ calls.fetch = 0 /\ calls.insert = 0
        /\ (InTable /\ pc = "tableEnd") => tableResult = "inSync"

\* C23: a table whose transfer loop was aborted by an exception is reported
\* as failed and not also as finished: "Finished replicating" is reported
\* only for a table whose loop ended on an empty chunk with no exception.
C23_FailedNotAlsoFinished ==
    (InTable /\ pc = "tableEnd") =>
        /\ "insert" \in errs => (reports.fail /\ ~reports.succeed)
        /\ reports.succeed => (~reports.fail /\ "insert" \notin errs)
====
